---- MODULE Spec2Model ----
(***************************************************************************)
(* Job lifecycle of the meeting-minutes backend (app/backend/main.py and   *)
(* app/backend/transcribe.py).                                             *)
(*                                                                         *)
(* Threads.  start_transcription and get_transcription_status are          *)
(* coroutines of the single event loop: between two awaits a handler is    *)
(* not interleaved with another handler.  run_transcription is a plain     *)
(* function handed to BackgroundTasks, so it runs in a worker thread, one  *)
(* per job, and every statement of it interleaves with the handlers and    *)
(* with the other runners.  One action below is one statement (one store   *)
(* write, one external call) of that code.                                 *)
(*                                                                         *)
(* Optional values are sequences of length at most one: None is << >> and  *)
(* a present value x is << x >>.  Text that the code inspects (file names, *)
(* segment text) is a sequence of one-character strings.                   *)
(***************************************************************************)
EXTENDS Integers, Sequences, FiniteSets, TLC

\* ------------------------------------------------------------------ bounds

\* The job identifiers the per-job state is indexed by.
JobIds == {"j1", "j2"}

\* An identifier no submission ever returns.
UnknownIds == {"zz"}

\* Longest list of segments whisperx.assign_word_speakers returns.
MaxSegs == 1

\* ------------------------------------------------------------------ values

None == << >>

Some(x) == << x >>

IsNone(o) == o = << >>

\* Python truthiness of an Optional[list]: None and the empty list are false.
TruthyList(o) == o # << >> /\ o[1] # << >>

\* Python truthiness of an Optional[str]: None and "" are false.
TruthyStr(o) == o # << >> /\ o[1] # ""

\* ------------------------------------------------------------------ upload validation

allowed_types == {"audio/mpeg", "audio/wav", "audio/mp4", "audio/x-m4a", "audio/mp3"}

AllowedSuffixes ==
    { <<".", "m", "p", "3">>, <<".", "w", "a", "v">>, <<".", "m", "4", "a">> }

\* str.endswith(suffix)
EndsWith(s, suf) ==
    /\ Len(s) >= Len(suf)
    /\ SubSeq(s, Len(s) - Len(suf) + 1, Len(s)) = suf

\* str.endswith(tuple of suffixes)
EndsWithAny(s, sufs) == \E suf \in sufs : EndsWith(s, suf)

\* Declared content types a client may send.
ContentTypes == allowed_types \cup {"text/plain", "video/mp4"}

\* File names a client may send.
Filenames ==
    { <<"a", ".", "w", "a", "v">>,
      <<"a", ".", "t", "x", "t">> }

\* A validation that rejects when either check fails.
RejectedEither(content_type, filename) ==
    content_type \notin allowed_types \/ ~EndsWithAny(filename, AllowedSuffixes)

\* The condition of the  raise HTTPException(400)  in start_transcription.
Rejected(content_type, filename) ==
    content_type \notin allowed_types /\ ~EndsWithAny(filename, AllowedSuffixes)

\* UPLOAD_DIR / f"{job_id}_{audio.filename}"
FilePath(job_id, filename) == <<job_id, filename>>


\* ------------------------------------------------------------------ pipeline

\* transcribe_audio, in program order: stage k first reports Checkpoint[k]
\* and StageMessage[k] through progress_callback, then runs Calls[k].  The
\* messages are written in ASCII, with WHISPER_MODEL at its default.
Checkpoint == <<5, 15, 25, 50, 65, 85, 95>>

NumStages == Len(Checkpoint)

StageMessage ==
    << "Lade WhisperX Modell (large-v2)...",
       "Lade Audio...",
       "Transkription laeuft...",
       "Alignment laeuft...",
       "Sprechererkennung laeuft...",
       "Segmente werden zusammengefuehrt...",
       "Transkript wird erstellt..." >>

\* "hf_token" is the credential check and "convert" the final loop; every
\* other entry is a call into whisperx that returns or raises.
Calls ==
    << <<"load_model">>,
       <<"load_audio">>,
       <<"transcribe">>,
       <<"load_align_model", "align">>,
       <<"hf_token", "DiarizationPipeline", "diarize_model">>,
       <<"assign_word_speakers">>,
       <<"convert">> >>

InternalCalls == {"hf_token", "convert"}

\* Values of the HF_TOKEN environment variable: unset, empty, set.
TokenValues == {None, Some(""), Some("hf_x")}

ImportErrorText == "WhisperX nicht installiert. Installieren Sie mit: uv sync --extra whisperx"

TokenErrorText == "HuggingFace Token nicht gesetzt. Setzen Sie die HF_TOKEN Umgebungsvariable. Token erstellen unter: https://huggingface.co/settings/tokens"

\* The exception an external call raises: where it was raised and str(e).
StageError(call) == [at |-> call, text |-> call \o " failed"]

NoExc == [at |-> "", text |-> ""]

\* ------------------------------------------------------------------ segments

\* The characters str.strip() removes and \s matches, as far as the inputs
\* below use them.
Whitespace == {" ", "\t", "\r", "\n"}

\* str.strip() on a sequence of characters.
RECURSIVE LStrip(_)
LStrip(s) == IF s # << >> /\ Head(s) \in Whitespace THEN LStrip(Tail(s)) ELSE s

RECURSIVE RStrip(_)
RStrip(s) ==
    IF s # << >> /\ s[Len(s)] \in Whitespace
    THEN RStrip(SubSeq(s, 1, Len(s) - 1))
    ELSE s

Strip(s) == RStrip(LStrip(s))

\* A segment of result["segments"]: its text is blank or has blanks around
\* it, and the "speaker" key may be missing.
SegTexts == { <<" ">>, <<" ", "a", " ">> }

Segments == [speaker : {None, Some("SPEAKER_00")}, text : SegTexts]

SegmentLists == UNION { [1..n -> Segments] : n \in 0..MaxSegs }

\* segment.get("speaker", "UNKNOWN")
SpeakerOf(segment) ==
    IF IsNone(segment.speaker) THEN "UNKNOWN" ELSE segment.speaker[1]

\* A conversion that puts each line in front of the lines before it.
RECURSIVE ConvertSegmentsReversed(_)
ConvertSegmentsReversed(segments) ==
    IF segments = << >> THEN << >>
    ELSE LET segment == Head(segments)
             text == Strip(segment.text)
             rest == ConvertSegmentsReversed(Tail(segments))
         IN  IF text # << >>
             THEN rest \o <<[speaker |-> SpeakerOf(segment), text |-> text]>>
             ELSE rest

\* The loop "Convert to our format" of transcribe_audio.
RECURSIVE ConvertSegments(_)
ConvertSegments(segments) ==
    IF segments = << >> THEN << >>
    ELSE LET segment == Head(segments)
             text == Strip(segment.text)
             rest == ConvertSegments(Tail(segments))
         IN  IF text # << >>
             THEN <<[speaker |-> SpeakerOf(segment), text |-> text]>> \o rest
             ELSE rest

\* Segments for the conversion applied on its own: two speakers or none, and
\* text that is empty, blank, padded or plain.
ConvertTexts == { << >>, <<" ">>, <<" ", "a", "\t">>, <<"b">> }

ConvertSegs ==
    [speaker : {None, Some("SPEAKER_00"), Some("SPEAKER_01")}, text : ConvertTexts]

\* Longest list of segments the conversion is applied to on its own.
MaxConvertSegs == 3

ConvertInputs == UNION { [1..n -> ConvertSegs] : n \in 0..MaxConvertSegs }

\* ------------------------------------------------------------------ parse_transcript_file

\* The literal parts of the pattern r"\[SPEAKER_(\d+)\]:\s*(.+)".
SpeakerTag == <<"[", "S", "P", "E", "A", "K", "E", "R", "_">>

TagClose == <<"]", ":">>

Digits == {"0", "1", "2", "3", "4", "5", "6", "7", "8", "9"}

\* f"SPEAKER_{speaker_id}"
SpeakerLabel(speaker_id) == <<"S", "P", "E", "A", "K", "E", "R", "_">> \o speaker_id

\* s from position n to its end.
From(s, n) == SubSeq(s, n, Len(s))

\* s has p at position n.
HasAt(s, n, p) == n + Len(p) - 1 <= Len(s) /\ SubSeq(s, n, n + Len(p) - 1) = p

\* The longest run of characters of set cs in s from position n: the
\* position after it.  A greedy \d+ or \s* stops there.
RECURSIVE RunEnd(_, _, _)
RunEnd(s, n, cs) == IF n <= Len(s) /\ s[n] \in cs THEN RunEnd(s, n + 1, cs) ELSE n

\* "for line in f": the text of a file cut after every newline.
RECURSIVE FileLines(_)
FileLines(content) ==
    IF content = << >> THEN << >>
    ELSE LET n == IF \E i \in 1..Len(content) : content[i] = "\n"
                  THEN CHOOSE i \in 1..Len(content) :
                           content[i] = "\n" /\ \A h \in 1..(i - 1) : content[h] # "\n"
                  ELSE Len(content)
         IN  <<SubSeq(content, 1, n)>> \o FileLines(From(content, n + 1))

\* re.match(pattern, line) on a line without a newline: None, or the two
\* groups.  The match starts at the first character; \d+ takes the whole run
\* of digits, which must not be empty; \s* takes the whole run of whitespace
\* and gives its last character back when nothing else is left for the ".+".
Match(line) ==
    LET d == Len(SpeakerTag) + 1
        c == RunEnd(line, d, Digits)
        w == c + Len(TagClose)
        t == RunEnd(line, w, Whitespace)
    IN  IF ~HasAt(line, 1, SpeakerTag) \/ c = d \/ ~HasAt(line, c, TagClose)
        THEN None
        ELSE IF t <= Len(line)
        THEN Some([speaker_id |-> SubSeq(line, d, c - 1), text |-> From(line, t)])
        ELSE IF t > w
        THEN Some([speaker_id |-> SubSeq(line, d, c - 1), text |-> From(line, t - 1)])
        ELSE None

ParseLineKeepsUnmatched(raw) ==
    LET line == Strip(raw)
        match == Match(line)
    IN  IF IsNone(match) THEN <<[speaker |-> SpeakerLabel(<<"0">>), text |-> line]>>
        ELSE <<[speaker |-> SpeakerLabel(match[1].speaker_id), text |-> Strip(match[1].text)]>>

\* The body of the loop over the lines: the entries one line appends.
ParseLine(raw) ==
    LET line == Strip(raw)
        match == Match(line)
    IN  IF line = << >> THEN << >>
        ELSE IF IsNone(match) THEN << >>
        ELSE LET text == Strip(match[1].text)
             IN  IF text # << >>
                 THEN <<[speaker |-> SpeakerLabel(match[1].speaker_id), text |-> text]>>
                 ELSE << >>

RECURSIVE ParseLines(_)
ParseLines(lines) ==
    IF lines = << >> THEN << >> ELSE ParseLine(Head(lines)) \o ParseLines(Tail(lines))

parse_transcript_file(content) == ParseLines(FileLines(content))

\* Lines of a transcript file: well-formed ones, blank ones, a tag with
\* nothing after it, and near misses of the pattern.
ParserLines ==
    { <<"[", "S", "P", "E", "A", "K", "E", "R", "_", "0", "1", "]", ":", " ", "H", "i">>,
      <<>>,
      <<" ", "\t">>,
      <<"[", "S", "P", "E", "A", "K", "E", "R", "_", "0", "2", "]", ":", " ", " ">>,
      <<"n", "o">>,
      <<" ", "[", "S", "P", "E", "A", "K", "E", "R", "_", "7", "]", ":", "a", " ", "b", " ">>,
      <<"[", "S", "P", "E", "A", "K", "E", "R", "_", "]", ":", " ", "x">>,
      <<"[", "S", "P", "E", "A", "K", "E", "R", "_", "1", "]", " ", "x">>,
      <<"x", "[", "S", "P", "E", "A", "K", "E", "R", "_", "1", "]", ":", " ", "x">>,
      <<"[", "S", "P", "E", "A", "K", "E", "R", "_", "1", "a", "]", ":", " ", "x">> }

\* Most lines of a file the parser is applied to.
MaxLines == 2

RECURSIVE JoinLines(_)
JoinLines(lines) ==
    IF lines = << >> THEN << >> ELSE Head(lines) \o <<"\n">> \o JoinLines(Tail(lines))

\* A file of five lines whose last line has no newline.
ExampleFile ==
    <<"[", "S", "P", "E", "A", "K", "E", "R", "_", "0", "1", "]", ":", " ", "H", "e", "l", "l", "o", " ", "w", "o", "r", "l", "d", "\n">>
    \o <<"\n", "[", "S", "P", "E", "A", "K", "E", "R", "_", "0", "2", "]", ":", " ", " ", "\n", "n", "o", "t", " ">>
    \o <<"a", " ", "m", "a", "t", "c", "h", " ", "l", "i", "n", "e", "\n", "[", "S", "P", "E", "A", "K", "E", "R", "_", "0", "1", "]", ":", " ", "S", "e", "c", "o", "n", "d">>

ParserInputs ==
    {ExampleFile} \cup
    UNION { {JoinLines(ls) : ls \in [1..n -> ParserLines]} : n \in 0..MaxLines }

\* ------------------------------------------------------------------ state

VARIABLES
    jobs,        \* main.jobs: job_id -> record, a function on the ids created
    files,       \* the paths that exist under UPLOAD_DIR
    HF_TOKEN,    \* os.environ.get("HF_TOKEN")
    pc,          \* per id: where its upload handler / runner thread stands
    file_path,   \* per id: the local file_path of the handler and the runner
    exc,         \* per id: the exception the runner's except clause caught
    result,      \* per id: transcribe_audio's local result["segments"]
    transcript,  \* per id: the list transcribe_audio returned
    req,         \* the event loop: the poll being served, or its last response
    summ,        \* the event loop: the summary request being served, or its response
    arg,         \* the argument of the function a function specification applies
    ret,         \* what that function returned
    telemetry,   \* per event: the call of send_telemetry and its thread
    TELEMETRY_WEBHOOK_URL  \* os.environ.get("TELEMETRY_WEBHOOK_URL", "")

vars ==
    <<jobs, files, HF_TOKEN, pc, file_path, exc, result, transcript, req, summ, arg, ret,
      telemetry, TELEMETRY_WEBHOOK_URL>>

\* The state of telemetry.py.
tele == <<telemetry, TELEMETRY_WEBHOOK_URL>>

\* The state outside the transcription endpoints and their runner.
aux == <<summ, arg, ret, tele>>

\* Positions of pc: <<label, stage, call>>.
At(label) == <<label, 0, 0>>

AtStage(label, k) == <<label, k, 0>>

AtCall(k, i) == <<"call", k, i>>

Terminal == {"completed", "failed"}

Statuses == {"pending", "processing"} \cup Terminal

\* A record that is created already processing.
NewJobProcessing(path) ==
    [ status |-> "processing",
      progress |-> 0,
      message |-> "Audio hochgeladen",
      file_path |-> path,
      transcript |-> None,
      error |-> None ]

\* The dict start_transcription stores under jobs[job_id].
NewJob(path) ==
    [ status |-> "pending",
      progress |-> 0,
      message |-> "Audio hochgeladen",
      file_path |-> path,
      transcript |-> None,
      error |-> None ]

\* A write that goes to the record of every job.
SetFieldOfEveryJob(job_id, key, value) ==
    [j \in DOMAIN jobs |-> [jobs[j] EXCEPT ![key] = value]]

\* jobs[job_id][key] = value
SetField(job_id, key, value) == [jobs EXCEPT ![job_id][key] = value]

\* ------------------------------------------------------------------ event loop

Idle == [kind |-> "idle"]

\* HTTPException(status_code, detail)
HttpError(op, job_id, code, detail) ==
    [kind |-> "error", op |-> op, job_id |-> job_id, code |-> code, detail |-> detail]

\* A TranscriptionJob body; n counts the fields a poll has read so far.  What
\* the client knows when it sends a poll: first, that the request answered
\* just before was the submission of this job; prev, the progress of the poll
\* answered just before, when that was a poll of this job and not terminal
\* (-1 otherwise).
Body(kind, op, job_id, n, first, prev, status, progress, message, tr, error) ==
    [ kind |-> kind, op |-> op, job_id |-> job_id, n |-> n,
      first |-> first, prev |-> prev,
      status |-> status, progress |-> progress, message |-> message,
      transcript |-> tr, error |-> error ]

\* Neither handler that runs without an await is in the middle of its body.
EventLoopFree == req.kind # "polling" /\ summ.kind # "calling"

\* The events send_telemetry is called with.
EventIds == {"e1", "e2"}

\* What the environment sets TELEMETRY_WEBHOOK_URL to: nothing, or a URL.
WebhookUrls == {"", "https://script.example/hook"}

\* An event send_telemetry has not been called with.  caller: where the
\* caller of send_telemetry is; at: where the thread is; backup and
\* webhook: how _save_backup and _send_to_webhook ended; posts: the requests
\* urlopen was given.
Unsent ==
    [caller |-> "none", at |-> "none", backup |-> "none", webhook |-> "none", posts |-> 0]

\* send_telemetry is never called and the webhook is not configured.
NoTelemetry ==
    /\ telemetry = [e \in EventIds |-> Unsent]
    /\ TELEMETRY_WEBHOOK_URL = ""

ModuleLoaded ==
    /\ jobs = << >>
    /\ files = {}
    /\ HF_TOKEN \in TokenValues
    /\ pc = [j \in JobIds |-> At("free")]
    /\ file_path = [j \in JobIds |-> None]
    /\ exc = [j \in JobIds |-> NoExc]
    /\ result = [j \in JobIds |-> None]
    /\ transcript = [j \in JobIds |-> None]
    /\ req = Idle
    /\ summ = Idle

Init == ModuleLoaded /\ arg = None /\ ret = None /\ NoTelemetry

\* ------------------------------------------------------------------ start_transcription

\* Validation fails: HTTPException(400) before anything is created.
SubmitReject(content_type, filename) ==
    /\ EventLoopFree
    /\ Rejected(content_type, filename)
    /\ req' = HttpError("submit", "", 400, "Ungueltiger Dateityp. Erlaubt: MP3, WAV, M4A")
    /\ UNCHANGED <<jobs, files, HF_TOKEN, pc, file_path, exc, result, transcript, aux>>

\* Validation passes: uuid4, open(file_path, "wb"), then  await audio.read().
SubmitOpen(job_id, content_type, filename) ==
    /\ EventLoopFree
    /\ ~Rejected(content_type, filename)
    /\ pc[job_id] = At("free")
    /\ file_path' = [file_path EXCEPT ![job_id] = Some(FilePath(job_id, filename))]
    /\ files' = files \cup {FilePath(job_id, filename)}
    /\ pc' = [pc EXCEPT ![job_id] = At("upload")]
    /\ UNCHANGED <<jobs, HF_TOKEN, exc, result, transcript, req, aux>>

\* After the await: f.write, jobs[job_id] = {...}, add_task, return.
SubmitStore(job_id) ==
    /\ EventLoopFree
    /\ pc[job_id] = At("upload")
    /\ jobs' = jobs @@ (job_id :> NewJob(file_path[job_id][1]))
    /\ pc' = [pc EXCEPT ![job_id] = At("queued")]
    /\ req' = Body("response", "submit", job_id, 0, FALSE, -1,
                   "pending", 0, "Transkription gestartet", None, None)
    /\ UNCHANGED <<files, HF_TOKEN, file_path, exc, result, transcript, aux>>

\* ------------------------------------------------------------------ get_transcription_status

\* Progress of the response in req when it answers a poll of job_id that was
\* not terminal.
PrevProgress(job_id) ==
    IF /\ req.kind = "response"
       /\ req.op = "poll"
       /\ req.job_id = job_id
       /\ req.status \notin Terminal
    THEN req.progress
    ELSE -1

\* The response in req is the one that returned job_id to the client.
JustSubmitted(job_id) ==
    /\ req.kind = "response"
    /\ req.op = "submit"
    /\ req.job_id = job_id

\* A lookup that stores a default record for an unknown id (dict.setdefault).
PollCreatesDefault(job_id) ==
    /\ EventLoopFree
    /\ job_id \notin DOMAIN jobs
    /\ jobs' = jobs @@ (job_id :> NewJob(FilePath(job_id, << >>)))
    /\ req' = HttpError("poll", job_id, 404, "Job nicht gefunden")
    /\ UNCHANGED <<files, HF_TOKEN, pc, file_path, exc, result, transcript, aux>>

\* if job_id not in jobs: raise HTTPException(404)
PollNotFound(job_id) ==
    /\ EventLoopFree
    /\ job_id \notin DOMAIN jobs
    /\ req' = HttpError("poll", job_id, 404, "Job nicht gefunden")
    /\ UNCHANGED <<jobs, files, HF_TOKEN, pc, file_path, exc, result, transcript, aux>>

\* job = jobs[job_id]
PollBegin(job_id) ==
    /\ EventLoopFree
    /\ job_id \in DOMAIN jobs
    /\ req' = Body("polling", "poll", job_id, 0,
                   JustSubmitted(job_id), PrevProgress(job_id),
                   "", -1, "", None, None)
    /\ UNCHANGED <<jobs, files, HF_TOKEN, pc, file_path, exc, result, transcript, aux>>

\* transcript=([...] if job["transcript"] else None)
SnapshotTranscript(job) ==
    IF TruthyList(job.transcript) THEN job.transcript ELSE None

\* The keyword arguments of TranscriptionJob(...) are evaluated left to
\* right, one read of the shared dict each; the last one builds the response.
PollRead ==
    /\ req.kind = "polling"
    /\ LET job == jobs[req.job_id]
       IN  req' =
             CASE req.n = 0 -> [req EXCEPT !.n = 1, !.status = job.status]
               [] req.n = 1 -> [req EXCEPT !.n = 2, !.progress = job.progress]
               [] req.n = 2 -> [req EXCEPT !.n = 3, !.message = job.message]
               [] req.n = 3 -> [req EXCEPT !.n = 4, !.transcript = SnapshotTranscript(job)]
               [] req.n = 4 -> [req EXCEPT !.n = 5, !.error = job.error,
                                           !.kind = "response"]
    /\ UNCHANGED <<jobs, files, HF_TOKEN, pc, file_path, exc, result, transcript, aux>>

\* ------------------------------------------------------------------ run_transcription

\* The runner thread goes from one position to the next.
Goto(job_id, position) == pc' = [pc EXCEPT ![job_id] = position]

\* Where the runner stands after call i of stage k has returned.
AfterCall(k, i) ==
    IF i < Len(Calls[k]) THEN AtCall(k, i + 1)
    ELSE IF k < NumStages THEN AtStage("cb_progress", k + 1)
    ELSE At("set_completed")

\* A runner without the except clause: the exception ends the task.
RaiseEscapes(job_id, e) ==
    /\ exc' = [exc EXCEPT ![job_id] = e]
    /\ Goto(job_id, At("done"))

\* raise inside the try block: control goes to the except clause with e bound.
Raise(job_id, e) ==
    /\ exc' = [exc EXCEPT ![job_id] = e]
    /\ Goto(job_id, At("set_failed"))

\* A runner that starts without writing the status.
RunSkipsProcessing(job_id) ==
    /\ pc[job_id] = At("queued")
    /\ Goto(job_id, At("set_progress10"))
    /\ UNCHANGED <<jobs, files, HF_TOKEN, file_path, exc, result, transcript, req, aux>>

\* jobs[job_id]["status"] = "processing"
RunSetProcessing(job_id) ==
    /\ pc[job_id] = At("queued")
    /\ jobs' = SetField(job_id, "status", "processing")
    /\ Goto(job_id, At("set_progress10"))
    /\ UNCHANGED <<files, HF_TOKEN, file_path, exc, result, transcript, req, aux>>

\* jobs[job_id]["progress"] = 10
RunSetProgress10(job_id) ==
    /\ pc[job_id] = At("set_progress10")
    /\ jobs' = SetField(job_id, "progress", 10)
    /\ Goto(job_id, At("set_preparing"))
    /\ UNCHANGED <<files, HF_TOKEN, file_path, exc, result, transcript, req, aux>>

\* jobs[job_id]["message"] = "Transkription wird vorbereitet..."
RunSetPreparing(job_id) ==
    /\ pc[job_id] = At("set_preparing")
    /\ jobs' = SetField(job_id, "message", "Transkription wird vorbereitet...")
    /\ Goto(job_id, At("import"))
    /\ UNCHANGED <<files, HF_TOKEN, file_path, exc, result, transcript, req, aux>>

\* transcribe_audio begins: import whisperx, torch.
ImportOk(job_id) ==
    /\ pc[job_id] = At("import")
    /\ Goto(job_id, AtStage("cb_progress", 1))
    /\ UNCHANGED <<jobs, files, HF_TOKEN, file_path, exc, result, transcript, req, aux>>

\* except ImportError: raise RuntimeError(...)
ImportFails(job_id) ==
    /\ pc[job_id] = At("import")
    /\ Raise(job_id, [at |-> "import", text |-> ImportErrorText])
    /\ UNCHANGED <<jobs, files, HF_TOKEN, file_path, result, transcript, req, aux>>

\* A callback that leaves the progress alone.
CallbackSkipsProgress(job_id) ==
    /\ pc[job_id][1] = "cb_progress"
    /\ Goto(job_id, AtStage("cb_message", pc[job_id][2]))
    /\ UNCHANGED <<jobs, files, HF_TOKEN, file_path, exc, result, transcript, req, aux>>

\* progress_callback, first statement: jobs[job_id]["progress"] = progress
CallbackProgress(job_id) ==
    /\ pc[job_id][1] = "cb_progress"
    /\ LET k == pc[job_id][2]
       IN  /\ jobs' = SetField(job_id, "progress", Checkpoint[k])
           /\ Goto(job_id, AtStage("cb_message", k))
    /\ UNCHANGED <<files, HF_TOKEN, file_path, exc, result, transcript, req, aux>>

\* progress_callback, second statement: jobs[job_id]["message"] = message
CallbackMessage(job_id) ==
    /\ pc[job_id][1] = "cb_message"
    /\ LET k == pc[job_id][2]
       IN  /\ jobs' = SetField(job_id, "message", StageMessage[k])
           /\ Goto(job_id, AtCall(k, 1))
    /\ UNCHANGED <<files, HF_TOKEN, file_path, exc, result, transcript, req, aux>>

\* The call the runner is about to make ("" when it is not at a call).
CurrentCall(job_id) ==
    IF pc[job_id][1] = "call" THEN Calls[pc[job_id][2]][pc[job_id][3]] ELSE ""

IsExternalCall(job_id) ==
    /\ pc[job_id][1] = "call"
    /\ CurrentCall(job_id) \notin InternalCalls

\* A whisperx call returns; assign_word_speakers returns the segments.
CallReturns(job_id) ==
    /\ IsExternalCall(job_id)
    /\ IF CurrentCall(job_id) = "assign_word_speakers"
       THEN \E segments \in SegmentLists :
                result' = [result EXCEPT ![job_id] = Some(segments)]
       ELSE UNCHANGED result
    /\ Goto(job_id, AfterCall(pc[job_id][2], pc[job_id][3]))
    /\ UNCHANGED <<jobs, files, HF_TOKEN, file_path, exc, transcript, req, aux>>

\* A call that is made again after it raised.
CallRaisesAndIsRetried(job_id) ==
    /\ IsExternalCall(job_id)
    /\ exc' = [exc EXCEPT ![job_id] = StageError(CurrentCall(job_id))]
    /\ UNCHANGED <<jobs, files, HF_TOKEN, pc, file_path, result, transcript, req, aux>>

\* A whisperx call raises.
CallRaises(job_id) ==
    /\ IsExternalCall(job_id)
    /\ Raise(job_id, StageError(CurrentCall(job_id)))
    /\ UNCHANGED <<jobs, files, HF_TOKEN, file_path, result, transcript, req, aux>>

\* A pipeline that goes on without the token.
CheckTokenIgnored(job_id) ==
    /\ CurrentCall(job_id) = "hf_token"
    /\ Goto(job_id, AfterCall(pc[job_id][2], pc[job_id][3]))
    /\ UNCHANGED <<jobs, files, HF_TOKEN, file_path, exc, result, transcript, req, aux>>

\* hf_token = os.environ.get("HF_TOKEN"); if not hf_token: raise RuntimeError
CheckToken(job_id) ==
    /\ CurrentCall(job_id) = "hf_token"
    /\ IF TruthyStr(HF_TOKEN)
       THEN /\ Goto(job_id, AfterCall(pc[job_id][2], pc[job_id][3]))
            /\ UNCHANGED exc
       ELSE Raise(job_id, [at |-> "hf_token", text |-> TokenErrorText])
    /\ UNCHANGED <<jobs, files, HF_TOKEN, file_path, result, transcript, req, aux>>

\* The conversion loop, and transcribe_audio returns its list.
Convert(job_id) ==
    /\ CurrentCall(job_id) = "convert"
    /\ transcript' = [transcript EXCEPT ![job_id] = Some(ConvertSegments(result[job_id][1]))]
    /\ result' = [result EXCEPT ![job_id] = None]
    /\ Goto(job_id, AfterCall(pc[job_id][2], pc[job_id][3]))
    /\ UNCHANGED <<jobs, files, HF_TOKEN, file_path, exc, req, aux>>

\* jobs[job_id]["status"] = "completed"
RunSetCompleted(job_id) ==
    /\ pc[job_id] = At("set_completed")
    /\ jobs' = SetField(job_id, "status", "completed")
    /\ Goto(job_id, At("set_progress100"))
    /\ UNCHANGED <<files, HF_TOKEN, file_path, exc, result, transcript, req, aux>>

\* jobs[job_id]["progress"] = 100
RunSetProgress100(job_id) ==
    /\ pc[job_id] = At("set_progress100")
    /\ jobs' = SetField(job_id, "progress", 100)
    /\ Goto(job_id, At("set_finished"))
    /\ UNCHANGED <<files, HF_TOKEN, file_path, exc, result, transcript, req, aux>>

\* jobs[job_id]["message"] = "Transkription abgeschlossen"
RunSetFinished(job_id) ==
    /\ pc[job_id] = At("set_finished")
    /\ jobs' = SetField(job_id, "message", "Transkription abgeschlossen")
    /\ Goto(job_id, At("set_transcript"))
    /\ UNCHANGED <<files, HF_TOKEN, file_path, exc, result, transcript, req, aux>>

\* jobs[job_id]["transcript"] = transcript
RunSetTranscript(job_id) ==
    /\ pc[job_id] = At("set_transcript")
    /\ jobs' = SetField(job_id, "transcript", transcript[job_id])
    /\ Goto(job_id, At("remove"))
    /\ UNCHANGED <<files, HF_TOKEN, file_path, exc, result, transcript, req, aux>>

\* A cleanup that drops the record together with the upload.
RemoveOkDropsRecord(job_id) ==
    /\ pc[job_id] = At("remove")
    /\ files' = files \ {file_path[job_id][1]}
    /\ jobs' = [j \in DOMAIN jobs \ {job_id} |-> jobs[j]]
    /\ Goto(job_id, At("done"))
    /\ UNCHANGED <<HF_TOKEN, file_path, exc, result, transcript, req, aux>>

\* try: os.remove(file_path)
RemoveOk(job_id) ==
    /\ pc[job_id] = At("remove")
    /\ files' = files \ {file_path[job_id][1]}
    /\ Goto(job_id, At("done"))
    /\ UNCHANGED <<jobs, HF_TOKEN, file_path, exc, result, transcript, req, aux>>

\* except: pass
RemoveFails(job_id) ==
    /\ pc[job_id] = At("remove")
    /\ Goto(job_id, At("done"))
    /\ UNCHANGED <<jobs, files, HF_TOKEN, file_path, exc, result, transcript, req, aux>>

\* An except clause that also forces the progress to 100.
RunSetFailedForcesProgress(job_id) ==
    /\ pc[job_id] = At("set_failed")
    /\ jobs' = [jobs EXCEPT ![job_id]["status"] = "failed", ![job_id]["progress"] = 100]
    /\ Goto(job_id, At("set_error"))
    /\ UNCHANGED <<files, HF_TOKEN, file_path, exc, result, transcript, req, aux>>

\* except Exception as e: jobs[job_id]["status"] = "failed"
RunSetFailed(job_id) ==
    /\ pc[job_id] = At("set_failed")
    /\ jobs' = SetField(job_id, "status", "failed")
    /\ Goto(job_id, At("set_error"))
    /\ UNCHANGED <<files, HF_TOKEN, file_path, exc, result, transcript, req, aux>>

\* jobs[job_id]["error"] = str(e)
RunSetError(job_id) ==
    /\ pc[job_id] = At("set_error")
    /\ jobs' = SetField(job_id, "error", Some(exc[job_id].text))
    /\ Goto(job_id, At("set_error_message"))
    /\ UNCHANGED <<files, HF_TOKEN, file_path, exc, result, transcript, req, aux>>

\* An except clause that cleans up the upload.
RunSetErrorMessageRemovesFile(job_id) ==
    /\ pc[job_id] = At("set_error_message")
    /\ jobs' = SetField(job_id, "message", "Fehler: " \o exc[job_id].text)
    /\ files' = files \ {file_path[job_id][1]}
    /\ Goto(job_id, At("done"))
    /\ UNCHANGED <<HF_TOKEN, file_path, exc, result, transcript, req, aux>>

\* jobs[job_id]["message"] = f"Fehler: {str(e)}"
RunSetErrorMessage(job_id) ==
    /\ pc[job_id] = At("set_error_message")
    /\ jobs' = SetField(job_id, "message", "Fehler: " \o exc[job_id].text)
    /\ Goto(job_id, At("done"))
    /\ UNCHANGED <<files, HF_TOKEN, file_path, exc, result, transcript, req, aux>>

\* One statement of the runner thread of job_id.
Runner(job_id) ==
    \/ RunSetProcessing(job_id)
    \/ RunSetProgress10(job_id)
    \/ RunSetPreparing(job_id)
    \/ ImportOk(job_id)
    \/ ImportFails(job_id)
    \/ CallbackProgress(job_id)
    \/ CallbackMessage(job_id)
    \/ CallReturns(job_id)
    \/ CallRaises(job_id)
    \/ CheckToken(job_id)
    \/ Convert(job_id)
    \/ RunSetCompleted(job_id)
    \/ RunSetProgress100(job_id)
    \/ RunSetFinished(job_id)
    \/ RunSetTranscript(job_id)
    \/ RemoveOk(job_id)
    \/ RemoveFails(job_id)
    \/ RunSetFailed(job_id)
    \/ RunSetError(job_id)
    \/ RunSetErrorMessage(job_id)

\* ------------------------------------------------------------------ generate_summary

\* The lines of a SummarizeRequest.
SummaryLines ==
    { [speaker |-> "SPEAKER_00", text |-> "Guten Tag"],
      [speaker |-> "SPEAKER_01", text |-> "Ja"] }

\* Most lines of a SummarizeRequest.
MaxSummaryLines == 2

SummarizeRequests ==
    [ top_title : {"TOP 1"},
      lines : UNION { [1..n -> SummaryLines] : n \in 0..MaxSummaryLines } ]

\* f"{line.speaker}: {line.text}"
SpeakerText(line) == line.speaker \o ": " \o line.text

\* "\n".join(...) of a list that is not empty.
RECURSIVE JoinText(_)
JoinText(lines) ==
    IF Len(lines) = 1 THEN SpeakerText(lines[1])
    ELSE SpeakerText(Head(lines)) \o "\n" \o JoinText(Tail(lines))

\* What chat.completions.create answers with: message.content, which may be
\* None.
Contents == {None, Some(""), Some("Die Sitzung wurde eroeffnet.")}

\* What chat.completions.create, or reading choices[0] of its answer, raises.
CreateErrors == {"Connection error.", "list index out of range"}

SummaryImportErrorText ==
    "OpenAI client nicht installiert. Installieren Sie mit: uv add openai"

SummaryErrorPrefix == "Fehler bei der Zusammenfassung: "

\* The summary request on the event loop.  at: where summarize_segment is;
\* text: the argument summarize_segment was called with; calls: how often
\* the handler called summarize_segment; llm: the requests sent to the
\* language model; code and body: the response; cause: the exception caught.
Summary(kind, at, request, text, calls, llm, code, body, cause) ==
    [ kind |-> kind, at |-> at, request |-> request, text |-> text,
      calls |-> calls, llm |-> llm, code |-> code, body |-> body, cause |-> cause ]

\* HTTPException(500, ...) of the except clause.
SummaryFails(e) ==
    summ' = Summary("error", "", summ.request, summ.text, summ.calls, summ.llm,
                    500, SummaryErrorPrefix \o e, Some(e))

SummaryCallsOnEmpty(request) ==
    /\ EventLoopFree
    /\ request.lines = << >>
    /\ summ' = Summary("calling", "import", request, Some(""), 1, << >>, 0, "", None)
    /\ UNCHANGED <<jobs, files, HF_TOKEN, pc, file_path, exc, result, transcript, req, arg, ret, tele>>

\* "if not request.lines": 400 before anything else.
SummaryReject(request) ==
    /\ EventLoopFree
    /\ request.lines = << >>
    /\ summ' = Summary("error", "", request, None, 0, << >>,
                       400, "Keine Zeilen zum Zusammenfassen", None)
    /\ UNCHANGED <<jobs, files, HF_TOKEN, pc, file_path, exc, result, transcript, req, arg, ret, tele>>

\* The lines are joined and summarize_segment is called with the text.
SummaryCall(request) ==
    /\ EventLoopFree
    /\ request.lines # << >>
    /\ summ' = Summary("calling", "import", request, Some(JoinText(request.lines)),
                       1, << >>, 0, "", None)
    /\ UNCHANGED <<jobs, files, HF_TOKEN, pc, file_path, exc, result, transcript, req, arg, ret, tele>>

\* "from openai import OpenAI" fails: RuntimeError.
SummaryImportFails ==
    /\ summ.kind = "calling"
    /\ summ.at = "import"
    /\ SummaryFails(SummaryImportErrorText)
    /\ UNCHANGED <<jobs, files, HF_TOKEN, pc, file_path, exc, result, transcript, req, arg, ret, tele>>

\* The client is built and chat.completions.create is called with the
\* prompt made of the title and the text.
SummaryCreate ==
    /\ summ.kind = "calling"
    /\ summ.at = "import"
    /\ summ' = [summ EXCEPT
                  !.at = "create",
                  !.llm = Append(@, [top_title |-> summ.request.top_title,
                                     transcript_text |-> summ.text[1]])]
    /\ UNCHANGED <<jobs, files, HF_TOKEN, pc, file_path, exc, result, transcript, req, arg, ret, tele>>

\* The model answers: "response.choices[0].message.content or ''".
SummaryReturns(content) ==
    /\ summ.kind = "calling"
    /\ summ.at = "create"
    /\ summ' = Summary("response", "", summ.request, summ.text, summ.calls, summ.llm,
                       200, IF TruthyStr(content) THEN content[1] ELSE "", None)
    /\ UNCHANGED <<jobs, files, HF_TOKEN, pc, file_path, exc, result, transcript, req, arg, ret, tele>>

\* The call, or reading its answer, raises.
SummaryRaises(e) ==
    /\ summ.kind = "calling"
    /\ summ.at = "create"
    /\ SummaryFails(e)
    /\ UNCHANGED <<jobs, files, HF_TOKEN, pc, file_path, exc, result, transcript, req, arg, ret, tele>>

Summarize ==
    \/ \E request \in SummarizeRequests : SummaryReject(request)
    \/ \E request \in SummarizeRequests : SummaryCall(request)
    \/ SummaryImportFails
    \/ SummaryCreate
    \/ \E content \in Contents : SummaryReturns(content)
    \/ \E e \in CreateErrors : SummaryRaises(e)

\* ------------------------------------------------------------------ send_telemetry

\* The answers of the webhook: response.status.
WebhookStatuses == {200, 500}

\* What urlopen raises: urllib.error.URLError, or another exception.
PostErrors == {"urlerror", "error"}

SetEvent(e, r) == telemetry' = [telemetry EXCEPT ![e] = r]

\* thread = threading.Thread(target=_send, daemon=True); thread.start()
SendTelemetryStart(e) ==
    /\ telemetry[e].caller = "none"
    /\ SetEvent(e, [telemetry[e] EXCEPT !.caller = "in_call", !.at = "backup"])
    /\ UNCHANGED <<jobs, files, HF_TOKEN, pc, file_path, exc, result, transcript, req, summ, arg, ret,
                   TELEMETRY_WEBHOOK_URL>>

\* A send_telemetry that joins its thread before it returns.
SendTelemetryJoins(e) ==
    /\ telemetry[e].caller = "in_call"
    /\ telemetry[e].at = "done"
    /\ SetEvent(e, [telemetry[e] EXCEPT !.caller = "returned"])
    /\ UNCHANGED <<jobs, files, HF_TOKEN, pc, file_path, exc, result, transcript, req, summ, arg, ret,
                   TELEMETRY_WEBHOOK_URL>>

\* send_telemetry returns None.
SendTelemetryReturn(e) ==
    /\ telemetry[e].caller = "in_call"
    /\ SetEvent(e, [telemetry[e] EXCEPT !.caller = "returned"])
    /\ UNCHANGED <<jobs, files, HF_TOKEN, pc, file_path, exc, result, transcript, req, summ, arg, ret,
                   TELEMETRY_WEBHOOK_URL>>

\* _save_backup: the line is appended to the backup file.
SaveBackupOk(e) ==
    /\ telemetry[e].at = "backup"
    /\ SetEvent(e, [telemetry[e] EXCEPT !.backup = "ok", !.at = "webhook"])
    /\ UNCHANGED <<jobs, files, HF_TOKEN, pc, file_path, exc, result, transcript, req, summ, arg, ret,
                   TELEMETRY_WEBHOOK_URL>>

\* _save_backup: mkdir, open or write raises; the except clause logs it.
SaveBackupFails(e) ==
    /\ telemetry[e].at = "backup"
    /\ SetEvent(e, [telemetry[e] EXCEPT !.backup = "failed", !.at = "webhook"])
    /\ UNCHANGED <<jobs, files, HF_TOKEN, pc, file_path, exc, result, transcript, req, summ, arg, ret,
                   TELEMETRY_WEBHOOK_URL>>

\* _send_to_webhook: "if not TELEMETRY_WEBHOOK_URL: return False"
WebhookNotConfigured(e) ==
    /\ telemetry[e].at = "webhook"
    /\ TELEMETRY_WEBHOOK_URL = ""
    /\ SetEvent(e, [telemetry[e] EXCEPT !.webhook = "skipped", !.at = "done"])
    /\ UNCHANGED <<jobs, files, HF_TOKEN, pc, file_path, exc, result, transcript, req, summ, arg, ret,
                   TELEMETRY_WEBHOOK_URL>>

\* _send_to_webhook: the request is built and urlopen is called.
WebhookPost(e) ==
    /\ telemetry[e].at = "webhook"
    /\ TELEMETRY_WEBHOOK_URL # ""
    /\ SetEvent(e, [telemetry[e] EXCEPT !.posts = @ + 1, !.at = "post"])
    /\ UNCHANGED <<jobs, files, HF_TOKEN, pc, file_path, exc, result, transcript, req, summ, arg, ret,
                   TELEMETRY_WEBHOOK_URL>>

\* The webhook answers: True for status 200, False otherwise.
WebhookAnswers(e, status) ==
    /\ telemetry[e].at = "post"
    /\ SetEvent(e, [telemetry[e] EXCEPT
                      !.webhook = IF status = 200 THEN "sent" ELSE "refused",
                      !.at = "done"])
    /\ UNCHANGED <<jobs, files, HF_TOKEN, pc, file_path, exc, result, transcript, req, summ, arg, ret,
                   TELEMETRY_WEBHOOK_URL>>

\* urlopen raises; either except clause logs it and returns False.
WebhookRaises(e, error) ==
    /\ telemetry[e].at = "post"
    /\ SetEvent(e, [telemetry[e] EXCEPT !.webhook = error, !.at = "done"])
    /\ UNCHANGED <<jobs, files, HF_TOKEN, pc, file_path, exc, result, transcript, req, summ, arg, ret,
                   TELEMETRY_WEBHOOK_URL>>

\* One step of the thread _send of event e.
TelemetryThread(e) ==
    \/ SaveBackupOk(e)
    \/ SaveBackupFails(e)
    \/ WebhookNotConfigured(e)
    \/ WebhookPost(e)
    \/ \E status \in WebhookStatuses : WebhookAnswers(e, status)
    \/ \E error \in PostErrors : WebhookRaises(e, error)

\* ------------------------------------------------------------------ functions

\* A call of parse_transcript_file on the file arg.
Parse ==
    /\ arg # None
    /\ ret = None
    /\ ret' = Some(parse_transcript_file(arg[1]))
    /\ UNCHANGED <<jobs, files, HF_TOKEN, pc, file_path, exc, result, transcript, req, summ, arg, tele>>

\* The conversion loop of transcribe_audio on the segments arg.
Assemble ==
    /\ arg # None
    /\ ret = None
    /\ ret' = Some(ConvertSegments(arg[1]))
    /\ UNCHANGED <<jobs, files, HF_TOKEN, pc, file_path, exc, result, transcript, req, summ, arg, tele>>

\* ------------------------------------------------------------------ specification

\* The requests and threads of the server when uuid4 draws from ids.
SubmitOver(ids) ==
    \E content_type \in ContentTypes, filename \in Filenames :
        \/ SubmitReject(content_type, filename)
        \/ \E job_id \in ids : SubmitOpen(job_id, content_type, filename)

PollOver(ids) ==
    \/ \E job_id \in ids \cup UnknownIds : PollNotFound(job_id)
    \/ \E job_id \in ids : PollBegin(job_id)
    \/ PollRead

NextOver(ids) ==
    \/ SubmitOver(ids)
    \/ \E job_id \in ids : SubmitStore(job_id)
    \/ PollOver(ids)
    \/ \E job_id \in ids : Runner(job_id)

\* The identifiers uuid4 returns in Spec: one job, and any number of polls
\* of it.
OneJob == {"j1"}

Next == NextOver(OneJob)

Spec == Init /\ [][Next]_vars

\* The worker thread of a job is scheduled again and again, and a call into
\* whisperx returns or raises.
FairSpec == Spec /\ \A job_id \in OneJob : WF_vars(Runner(job_id))

\* The last thing the event loop did was to serve a poll, or it is serving
\* one.
Polling == req.kind \in {"polling", "response"} /\ req.op = "poll"

\* Two submissions, each with its own identifier and runner, with the token
\* set.  The runners interleave with each other and with the submissions;
\* polls are served, field by field, at any point the two runners have
\* reached, and the worker threads are scheduled again with the next
\* submission.
PairInit == Init /\ HF_TOKEN = Some("hf_x")

PairNext ==
    \/ SubmitOver(JobIds)
    \/ \E job_id \in JobIds : SubmitStore(job_id)
    \/ PollOver(JobIds)
    \/ (~Polling /\ \E job_id \in JobIds : Runner(job_id))

PairSpec == PairInit /\ [][PairNext]_vars

\* The summary endpoint next to the submission of a job and its runner.
SummaryNext ==
    \/ SubmitOver(OneJob)
    \/ \E job_id \in OneJob : SubmitStore(job_id)
    \/ \E job_id \in OneJob : Runner(job_id)
    \/ Summarize

SummarySpec == Init /\ [][SummaryNext]_vars

\* send_telemetry called with each event at most once, with the webhook
\* configured or not.
TelemetryInit ==
    /\ ModuleLoaded
    /\ arg = None
    /\ ret = None
    /\ telemetry = [e \in EventIds |-> Unsent]
    /\ TELEMETRY_WEBHOOK_URL \in WebhookUrls

TelemetryNext ==
    \E e \in EventIds :
        \/ SendTelemetryStart(e)
        \/ SendTelemetryReturn(e)
        \/ TelemetryThread(e)

TelemetrySpec == TelemetryInit /\ [][TelemetryNext]_vars

\* The caller of send_telemetry keeps running; nothing is assumed about the
\* daemon threads.
TelemetryCallerSpec ==
    TelemetrySpec /\ \A e \in EventIds : WF_vars(SendTelemetryReturn(e))

\* parse_transcript_file applied once to one file.
ParserInit ==
    /\ ModuleLoaded
    /\ arg \in {Some(content) : content \in ParserInputs}
    /\ ret = None
    /\ NoTelemetry

ParserSpec == ParserInit /\ [][Parse]_vars

\* The conversion loop applied once to one list of segments.
ConvertInit ==
    /\ ModuleLoaded
    /\ arg \in {Some(segments) : segments \in ConvertInputs}
    /\ ret = None
    /\ NoTelemetry

ConvertSpec == ConvertInit /\ [][Assemble]_vars

\* ------------------------------------------------------------------ properties

\* req holds the answer to a poll: a complete TranscriptionJob.
PollAnswered == req.kind = "response" /\ req.op = "poll"

Exists(job_id) == job_id \in DOMAIN jobs

Done(job_id) == pc[job_id] = At("done")

\* C1: a poll of a job never reports less progress than the poll of the same
\* job answered just before it, as long as that one was not terminal.
C1_PollProgressNonDecreasing ==
    (PollAnswered /\ req.prev # -1) => req.progress >= req.prev

\* The transcript / error rule of the data model, for a record or a snapshot.
ResultMatchesStatus(r) ==
    /\ r.status = "completed" => (~IsNone(r.transcript) /\ IsNone(r.error))
    /\ r.status = "failed" => (~IsNone(r.error) /\ IsNone(r.transcript))
    /\ r.status \in {"pending", "processing"} => (IsNone(r.transcript) /\ IsNone(r.error))
    /\ ~(~IsNone(r.transcript) /\ ~IsNone(r.error))

\* C2: in every state every record, and every snapshot a poll returns, has a
\* transcript exactly when completed and an error exactly when failed.
C2_ResultMatchesStatus ==
    /\ \A job_id \in DOMAIN jobs : ResultMatchesStatus(jobs[job_id])
    /\ PollAnswered => ResultMatchesStatus(req)

\* C3: a record whose status is completed or failed is never written again.
C3_TerminalRecordFrozen ==
    [][\A job_id \in DOMAIN jobs :
          jobs[job_id].status \in Terminal => jobs'[job_id] = jobs[job_id]]_vars

\* The five fields of a record or of a snapshot.
Fields(r) == <<r.status, r.progress, r.message, r.transcript, r.error>>

\* The texts str(e) can have.
ErrorTexts ==
    {ImportErrorText, TokenErrorText}
        \cup UNION { {StageError(Calls[k][i]).text : i \in 1..Len(Calls[k])} :
                        k \in 1..NumStages }

\* The snapshots of a record between two whole transitions of its runner:
\* as created, started, at a checkpoint, completed, failed.
WholeSnapshots ==
    {<<"pending", 0, "Audio hochgeladen", None, None>>,
     <<"processing", 10, "Transkription wird vorbereitet...", None, None>>}
    \cup {<<"processing", Checkpoint[k], StageMessage[k], None, None>> : k \in 1..NumStages}
    \cup {<<"completed", 100, "Transkription abgeschlossen", SnapshotTranscript([transcript |-> Some(ConvertSegments(l))]), None>> :
            l \in SegmentLists}
    \cup {<<"failed", p, "Fehler: " \o t, None, Some(t)>> :
            p \in {10} \cup {Checkpoint[k] : k \in 1..NumStages}, t \in ErrorTexts}

\* C4: the snapshot a poll returns is the record as it stood between two
\* whole transitions of the runner.
C4_NoTornSnapshot == PollAnswered => Fields(req) \in WholeSnapshots

\* The status of a job, "none" before its record exists.
StatusOf(store, job_id) ==
    IF job_id \in DOMAIN store THEN store[job_id].status ELSE "none"

StatusSteps ==
    { <<"none", "pending">>, <<"pending", "processing">>,
      <<"processing", "completed">>, <<"processing", "failed">> }

\* C5: the status of a job changes only along none -> pending -> processing
\* -> completed or failed, and its runner is queued once, by the submission
\* that creates the record, and started once, from pending.
C5_StatusOrder ==
    [][\A job_id \in JobIds :
          /\ StatusOf(jobs', job_id) # StatusOf(jobs, job_id)
                => <<StatusOf(jobs, job_id), StatusOf(jobs', job_id)>> \in StatusSteps
          /\ (pc'[job_id] = At("queued") /\ pc[job_id] # At("queued"))
                => (StatusOf(jobs, job_id) = "none" /\ StatusOf(jobs', job_id) = "pending")
          /\ (pc[job_id] = At("queued") /\ pc'[job_id] # At("queued"))
                => (StatusOf(jobs, job_id) = "pending" /\ StatusOf(jobs', job_id) = "processing")
      ]_vars

C5_Witness ==
    \E job_id \in DOMAIN jobs : Done(job_id) /\ jobs[job_id].status = "completed"

\* The progress last reported when the exception was raised.
ProgressBefore(at) ==
    IF at = "import" THEN 10
    ELSE Checkpoint[CHOOSE k \in 1..NumStages : \E i \in 1..Len(Calls[k]) : Calls[k][i] = at]

\* C6: a runner that caught an exception ends with status failed, the
\* progress last reported before the raise, the exception's text as error,
\* "Fehler: " and that text as message, and no transcript.
C6_FailureRecord ==
    \A job_id \in DOMAIN jobs :
        (Done(job_id) /\ exc[job_id] # NoExc) =>
            /\ jobs[job_id].status = "failed"
            /\ jobs[job_id].progress = ProgressBefore(exc[job_id].at)
            /\ jobs[job_id].error = Some(exc[job_id].text)
            /\ jobs[job_id].message = "Fehler: " \o exc[job_id].text
            /\ IsNone(jobs[job_id].transcript)

C6_Witness ==
    \E job_id \in DOMAIN jobs :
        Done(job_id) /\ exc[job_id].at = "diarize_model" /\ jobs[job_id].progress = 65

\* C7: a queued runner ends, with the job completed or failed, and failed
\* when the runner caught an exception.
C7_RunnerTerminates ==
    \A job_id \in OneJob :
        (pc[job_id] = At("queued"))
            ~> (/\ Done(job_id)
                /\ jobs[job_id].status \in Terminal
                /\ exc[job_id] # NoExc => jobs[job_id].status = "failed")

C7_Witness ==
    \E job_id \in DOMAIN jobs :
        Done(job_id) /\ exc[job_id].at = "load_audio" /\ jobs[job_id].status = "failed"

\* The answer in req is to a poll sent right after the submission returned.
FirstPollAnswered == PollAnswered /\ req.first

\* C8 as stated: the first poll after the submission reports pending or
\* processing, with progress in 0..100.
C8_FirstPollNotTerminal ==
    FirstPollAnswered =>
        (req.status \in {"pending", "processing"} /\ req.progress \in 0..100)

\* C8 amended: the record exists, pending with progress 0, while the runner
\* is queued; the first poll is never answered not-found, reports progress
\* in 0..100, and reports a terminal status only when the runner has
\* written one.
C8_FirstPollFindsJob ==
    /\ \A job_id \in JobIds :
          pc[job_id] = At("queued") =>
              /\ Exists(job_id)
              /\ jobs[job_id].status = "pending"
              /\ jobs[job_id].progress = 0
    /\ \A job_id \in JobIds : JustSubmitted(job_id) => Exists(job_id)
    /\ FirstPollAnswered =>
          /\ req.progress \in 0..100
          /\ req.status \in Statuses
          /\ req.status \in Terminal => jobs[req.job_id].status = req.status

C8_Witness == FirstPollAnswered /\ req.status = "processing" /\ req.progress = 10

\* No submission has returned this id: it is outside the ids uuid4 draws, or
\* unused, or its upload has not been stored yet.
NeverReturned(job_id) ==
    \/ job_id \in UnknownIds
    \/ pc[job_id] \in {At("free"), At("upload")}

\* C9: a poll of an id that no submission has returned is answered 404, is
\* never served a snapshot, and leaves the store as it was.
C9_UnknownIdNotFound ==
    [][\A job_id \in JobIds \cup UnknownIds :
          (/\ NeverReturned(job_id)
           /\ req' # req
           /\ req'.kind # "idle"
           /\ req'.op = "poll"
           /\ req'.job_id = job_id)
          => (req'.kind = "error" /\ req'.code = 404 /\ jobs' = jobs)
      ]_vars

C9_Witness ==
    /\ req.kind = "error"
    /\ req.code = 404
    /\ req.job_id \in JobIds
    /\ pc[req.job_id] = At("upload")

\* The submissions the interface rejects: neither the declared content type
\* nor the suffix of the file name is allowed.
Unsupported(content_type, filename) ==
    /\ content_type \notin allowed_types
    /\ \A suffix \in AllowedSuffixes : ~EndsWith(filename, suffix)

\* C10: a step that answers 400 creates no record, no file and no runner,
\* and only an unsupported submission is answered so; a step that opens an
\* upload file is never the step of an unsupported submission; the step that
\* stores an accepted upload adds exactly the one record of its id.
C10_ValidationBeforeCreation ==
    [][/\ (req' # req /\ req'.kind = "error" /\ req'.code = 400) =>
            /\ jobs' = jobs /\ files' = files /\ pc' = pc
            /\ \A content_type \in ContentTypes, filename \in Filenames :
                  SubmitReject(content_type, filename) =>
                      Unsupported(content_type, filename)
       /\ \A job_id \in JobIds :
            /\ (pc[job_id] = At("free") /\ pc'[job_id] # At("free")) =>
                  /\ jobs' = jobs
                  /\ \A content_type \in ContentTypes, filename \in Filenames :
                        SubmitOpen(job_id, content_type, filename) =>
                            ~Unsupported(content_type, filename)
            /\ (pc[job_id] = At("upload") /\ pc'[job_id] # At("upload")) =>
                  /\ ~Exists(job_id)
                  /\ DOMAIN jobs' = DOMAIN jobs \cup {job_id}
                  /\ \A other \in DOMAIN jobs : jobs'[other] = jobs[other]
                  /\ pc'[job_id] = At("queued")
      ]_vars

C10_Witness ==
    /\ req.kind = "error"
    /\ req.code = 400
    /\ DOMAIN jobs = {}
    /\ files = {}

\* The line, stripped, is the tag with digits ds, "]:" and a rest that is
\* not blank.
TaggedAs(raw, ds) ==
    LET line == Strip(raw)
        n == Len(SpeakerTag) + Len(ds)
    IN  /\ ds # << >>
        /\ \A i \in 1..Len(ds) : ds[i] \in Digits
        /\ Len(line) >= n + Len(TagClose)
        /\ SubSeq(line, 1, n + Len(TagClose)) = SpeakerTag \o ds \o TagClose
        /\ Strip(From(line, n + Len(TagClose) + 1)) # << >>

DigitsOf(raw) ==
    LET line == Strip(raw)
    IN  { SubSeq(line, Len(SpeakerTag) + 1, n) : n \in (Len(SpeakerTag) + 1)..Len(line) }

Accepted(raw) == \E ds \in DigitsOf(raw) : TaggedAs(raw, ds)

\* The entry an accepted line stands for.
EntryOf(raw) ==
    LET ds == CHOOSE ds \in DigitsOf(raw) : TaggedAs(raw, ds)
        line == Strip(raw)
    IN  [speaker |-> <<"S", "P", "E", "A", "K", "E", "R", "_">> \o ds,
         text |-> Strip(From(line, Len(SpeakerTag) + Len(ds) + Len(TagClose) + 1))]

\* The position in lines of the k-th accepted line.
NthAccepted(lines, k) ==
    CHOOSE i \in 1..Len(lines) :
        /\ Accepted(lines[i])
        /\ Cardinality({h \in 1..i : Accepted(lines[h])}) = k

ExampleTranscript ==
    << [speaker |-> <<"S", "P", "E", "A", "K", "E", "R", "_", "0", "1">>,
        text |-> <<"H", "e", "l", "l", "o", " ", "w", "o", "r", "l", "d">>],
       [speaker |-> <<"S", "P", "E", "A", "K", "E", "R", "_", "0", "1">>,
        text |-> <<"S", "e", "c", "o", "n", "d">>] >>

\* C11: the parser returns, in the order of the file, one entry for each
\* line that is the tag [SPEAKER_digits]: followed by text that is not
\* blank, with the speaker SPEAKER_digits and the text stripped, and nothing
\* for any other line; the five-line example yields its two entries.
C11_ParserKeepsTaggedLines ==
    ret # None =>
        LET lines == FileLines(arg[1])
            out == ret[1]
        IN  /\ Len(out) = Cardinality({i \in 1..Len(lines) : Accepted(lines[i])})
            /\ \A k \in 1..Len(out) : out[k] = EntryOf(lines[NthAccepted(lines, k)])
            /\ arg[1] = ExampleFile => out = ExampleTranscript

C11_Witness == arg = Some(ExampleFile) /\ ret = Some(ExampleTranscript)

\* The summary request in summ is past validation or answered.
SummaryServed == summ.kind # "idle"

\* C12: a summary request without lines is answered 400 and neither
\* summarize_segment nor the language model is called; with lines,
\* summarize_segment is called once, with the "speaker: text" of the lines
\* joined by newlines, the language model is sent that text at most once, an
\* exception is answered 500 with its text, and no step of the handler
\* changes the job store.
C12_SummaryValidatesThenCallsOnce ==
    /\ [](SummaryServed =>
            LET lines == summ.request.lines
                n == Len(lines)
            IN  /\ n = 0 =>
                      /\ summ.kind = "error" /\ summ.code = 400
                      /\ summ.calls = 0 /\ summ.llm = << >>
                /\ n > 0 =>
                      /\ summ.calls = 1
                      /\ Len(summ.llm) <= 1
                      /\ n = 1 => summ.text = Some(lines[1].speaker \o ": " \o lines[1].text)
                      /\ n > 1 =>
                            summ.text = Some(JoinText(SubSeq(lines, 1, n - 1)) \o "\n"
                                             \o lines[n].speaker \o ": " \o lines[n].text)
                      /\ \A i \in 1..Len(summ.llm) : Some(summ.llm[i].transcript_text) = summ.text
                      /\ summ.kind = "response" => (Len(summ.llm) = 1 /\ summ.code = 200)
                      /\ summ.kind = "error" =>
                            /\ summ.code = 500
                            /\ summ.cause # None
                            /\ summ.body = "Fehler bei der Zusammenfassung: " \o summ.cause[1])
    /\ [][summ' # summ => jobs' = jobs]_vars

C12_Witness ==
    /\ summ.kind = "error" /\ summ.code = 500 /\ summ.cause = Some("Connection error.")
    /\ summ.text = Some("SPEAKER_00: Guten Tag\nSPEAKER_01: Ja")
    /\ Len(summ.llm) = 1
    /\ \E job_id \in DOMAIN jobs : jobs[job_id].status = "processing"

\* The runner of job_id is inside transcribe_audio, past the import.
InPipeline(job_id) == pc[job_id][1] \in {"cb_progress", "cb_message", "call"}

\* The step is a progress callback of job_id writing the progress.
EmitsCheckpoint(job_id) ==
    /\ pc[job_id][1] = "cb_progress"
    /\ pc'[job_id][1] = "cb_message"

\* C14: the callbacks of a job write 5, 15, 25, 50, 65, 85, 95 in this
\* order, each after the one before it; the runner stands at a call of a
\* stage only with that stage's checkpoint and message in the record; and
\* once a call has raised, no callback runs and the progress is not written
\* again.
C14_CheckpointsInOrderBeforeStages ==
    /\ [](\A job_id \in DOMAIN jobs :
            pc[job_id][1] = "call" =>
                /\ jobs[job_id].progress = Checkpoint[pc[job_id][2]]
                /\ jobs[job_id].message = StageMessage[pc[job_id][2]])
    /\ [][\A job_id \in DOMAIN jobs :
            /\ EmitsCheckpoint(job_id) =>
                  LET k == pc[job_id][2]
                  IN  /\ jobs'[job_id].progress = Checkpoint[k]
                      /\ jobs[job_id].progress = IF k = 1 THEN 10 ELSE Checkpoint[k - 1]
                      /\ exc[job_id] = NoExc
            /\ (InPipeline(job_id) /\ jobs'[job_id].progress # jobs[job_id].progress) =>
                  EmitsCheckpoint(job_id)
            /\ exc[job_id] # NoExc =>
                  /\ ~InPipeline(job_id) /\ ~InPipeline(job_id)'
                  /\ jobs'[job_id].progress = jobs[job_id].progress]_vars

C14_Witness ==
    \E job_id \in DOMAIN jobs :
        /\ pc[job_id] = AtCall(7, 1)
        /\ jobs[job_id].progress = 95
        /\ jobs[job_id].status = "processing"

\* How far the task of a job is: the submission, run_transcription up to the
\* import, the stages with their callbacks and calls, the statements after
\* transcribe_audio has returned, the except clause, the end.
Position(p) ==
    CASE p[1] = "free" -> 0
      [] p[1] = "upload" -> 1
      [] p[1] = "queued" -> 2
      [] p[1] = "set_progress10" -> 3
      [] p[1] = "set_preparing" -> 4
      [] p[1] = "import" -> 5
      [] p[1] = "cb_progress" -> 10 * p[2]
      [] p[1] = "cb_message" -> 10 * p[2] + 1
      [] p[1] = "call" -> 10 * p[2] + 1 + p[3]
      [] p[1] = "set_completed" -> 100
      [] p[1] = "set_progress100" -> 101
      [] p[1] = "set_finished" -> 102
      [] p[1] = "set_transcript" -> 103
      [] p[1] = "remove" -> 104
      [] p[1] = "set_failed" -> 110
      [] p[1] = "set_error" -> 111
      [] p[1] = "set_error_message" -> 112
      [] p[1] = "done" -> 120

\* C15: the task of a job only moves forward, so no call of a stage is made
\* twice; once a call has raised the runner is in the except clause or at
\* its end, and a record that is failed or completed is never processing
\* again; a submission made when records exist adds a record under an
\* identifier that had none, pending, and leaves the others as they are.
C15_NoRetrySameJob ==
    /\ [](\A job_id \in JobIds :
            exc[job_id] # NoExc =>
                /\ pc[job_id][1] \in {"set_failed", "set_error", "set_error_message", "done"}
                /\ jobs[job_id].status \in {"processing", "failed"})
    /\ [][\A job_id \in JobIds :
            /\ pc'[job_id] # pc[job_id] => Position(pc'[job_id]) > Position(pc[job_id])
            /\ (Exists(job_id) /\ jobs[job_id].status \in Terminal) =>
                  jobs'[job_id].status = jobs[job_id].status
            /\ Exists(job_id) => Exists(job_id)'
            /\ (~Exists(job_id) /\ Exists(job_id)') =>
                  /\ pc[job_id] = At("upload")
                  /\ jobs'[job_id].status = "pending"
                  /\ \A other \in DOMAIN jobs : jobs'[other] = jobs[other]]_vars

C15_Witness ==
    /\ Exists("j1") /\ Done("j1") /\ jobs["j1"].status = "failed"
    /\ exc["j1"].at = "transcribe"
    /\ Exists("j2") /\ jobs["j2"].status = "processing" /\ pc["j2"] = AtCall(3, 1)

\* The record or snapshot r is the one the completion writes.
CompletionReported(r) ==
    r.status = "completed" =>
        (r.progress = 100 /\ r.message = "Transkription abgeschlossen")

\* C16: a record is completed only when its runner has made every call of
\* the seven stages without an exception; and every completed record, and
\* every completed snapshot a poll returns, has progress 100 and the
\* completion message.
C16_CompletedAfterAllStages ==
    /\ \A job_id \in DOMAIN jobs :
          jobs[job_id].status = "completed" =>
              /\ Position(pc[job_id]) > Position(AtCall(NumStages, Len(Calls[NumStages])))
              /\ exc[job_id] = NoExc
              /\ ~IsNone(transcript[job_id])
    /\ \A job_id \in DOMAIN jobs : CompletionReported(jobs[job_id])
    /\ PollAnswered => CompletionReported(req)

\* HF_TOKEN is not set, or set to the empty string.
TokenAbsent == ~TruthyStr(HF_TOKEN)

\* The runner of job_id is about to read the token.
AtTokenCheck(job_id) == pc[job_id][1] = "call" /\ CurrentCall(job_id) = "hf_token"

\* C17: without the token, a runner that reaches the diarization stage
\* ends with the job failed, the text of the token error as error and in
\* the message, and progress 65; no runner gets past the token check to
\* DiarizationPipeline, diarize_model, assign_word_speakers or the
\* conversion, none produces segments or a transcript, and after the raise
\* the runner is only in the except clause or at its end.
C17_MissingTokenFailsJob ==
    /\ [](TokenAbsent =>
            \A job_id \in JobIds :
                /\ pc[job_id][1] \in {"cb_progress", "cb_message", "call"} =>
                      Position(pc[job_id]) <= Position(AtCall(5, 1))
                /\ pc[job_id][1] \notin
                      {"set_completed", "set_progress100", "set_finished", "set_transcript", "remove"}
                /\ IsNone(result[job_id]) /\ IsNone(transcript[job_id])
                /\ Exists(job_id) =>
                      /\ jobs[job_id].status # "completed"
                      /\ IsNone(jobs[job_id].transcript)
                /\ exc[job_id].at = "hf_token" =>
                      /\ exc[job_id].text = TokenErrorText
                      /\ pc[job_id][1] \in {"set_failed", "set_error", "set_error_message", "done"}
                      /\ jobs[job_id].progress = 65)
    /\ \A job_id \in OneJob :
          (TokenAbsent /\ AtTokenCheck(job_id))
              ~> (/\ Done(job_id)
                  /\ jobs[job_id].status = "failed"
                  /\ jobs[job_id].error = Some(TokenErrorText)
                  /\ jobs[job_id].message = "Fehler: " \o TokenErrorText
                  /\ jobs[job_id].progress = 65)

C17_Witness ==
    \E job_id \in DOMAIN jobs :
        /\ HF_TOKEN = Some("")
        /\ Done(job_id)
        /\ exc[job_id].at = "hf_token"
        /\ jobs[job_id].status = "failed"
        /\ jobs[job_id].progress = 65

\* The upload of job_id is on disk.
FileExists(job_id) == ~IsNone(file_path[job_id]) /\ file_path[job_id][1] \in files

\* C18: the upload of a job is on disk while the job is pending or
\* processing, and when it is failed; a step removes it only when the record
\* is completed with its transcript stored; and the step after
\* os.remove, whether it removed the file or raised, leaves the record as it
\* is, completed.
C18_UploadKeptUntilCompleted ==
    /\ [](\A job_id \in DOMAIN jobs :
            /\ jobs[job_id].status \in {"pending", "processing", "failed"} => FileExists(job_id)
            /\ jobs[job_id].file_path = file_path[job_id][1])
    /\ [][\A job_id \in DOMAIN jobs :
            /\ (FileExists(job_id) /\ ~FileExists(job_id)') =>
                  /\ pc[job_id] = At("remove")
                  /\ jobs[job_id].status = "completed"
                  /\ ~IsNone(jobs[job_id].transcript)
            /\ (pc[job_id] = At("remove") /\ pc'[job_id] # pc[job_id]) =>
                  /\ jobs'[job_id] = jobs[job_id]
                  /\ jobs'[job_id].status = "completed"
                  /\ Done(job_id)']_vars

C18_Witness ==
    \E job_id \in DOMAIN jobs :
        /\ Done(job_id)
        /\ jobs[job_id].status = "completed"
        /\ FileExists(job_id)

\* The segment has text left once the whitespace around it is removed.
HasText(segment) == \E i \in 1..Len(segment.text) : segment.text[i] \notin Whitespace

\* The position in segments of the k-th segment with text.
NthWithText(segments, k) ==
    CHOOSE i \in 1..Len(segments) :
        /\ HasText(segments[i])
        /\ Cardinality({h \in 1..i : HasText(segments[h])}) = k

\* C19: the conversion returns one line for each segment that has text
\* other than whitespace, in the order of the segments, and none for the
\* others; the k-th line has the stripped text of the k-th such segment,
\* which is not empty, and its speaker, or "UNKNOWN" when it has none.
C19_AssemblyKeepsOrder ==
    ret # None =>
        LET segments == arg[1]
            out == ret[1]
        IN  /\ Len(out) = Cardinality({i \in 1..Len(segments) : HasText(segments[i])})
            /\ \A k \in 1..Len(out) :
                  LET segment == segments[NthWithText(segments, k)]
                  IN  /\ out[k].text = Strip(segment.text)
                      /\ out[k].text # << >>
                      /\ out[k].text[1] \notin Whitespace
                      /\ out[k].text[Len(out[k].text)] \notin Whitespace
                      /\ out[k].speaker =
                            IF segment.speaker = None THEN "UNKNOWN" ELSE segment.speaker[1]

C19_Witness ==
    /\ arg = Some(<< [speaker |-> Some("SPEAKER_01"), text |-> <<"b">>],
                     [speaker |-> Some("SPEAKER_00"), text |-> <<" ">>],
                     [speaker |-> None, text |-> <<" ", "a", "\t">>] >>)
    /\ ret = Some(<< [speaker |-> "SPEAKER_01", text |-> <<"b">>],
                     [speaker |-> "UNKNOWN", text |-> <<"a">>] >>)

\* The step is a statement of the runner of job_id.
RunnerStep(job_id) ==
    /\ pc[job_id][1] \notin {"free", "upload"}
    /\ pc'[job_id] # pc[job_id]

\* The step is part of a poll: the handler begins, reads a field, or answers
\* not-found.
PollStep ==
    /\ req' # req
    /\ req'.op = "poll"

\* C20: a statement of the runner of a job leaves the record of every other
\* job as it is, and the set of records too; a step of a poll leaves the
\* whole store as it is.
C20_RunnerWritesOwnRecordOnly ==
    [][/\ \A job_id \in JobIds :
             RunnerStep(job_id) =>
                 /\ DOMAIN jobs' = DOMAIN jobs
                 /\ \A other \in DOMAIN jobs \ {job_id} : jobs'[other] = jobs[other]
       /\ PollStep => jobs' = jobs]_vars

C20_Witness ==
    /\ Exists("j1") /\ jobs["j1"].status = "processing" /\ jobs["j1"].progress = 50
    /\ Exists("j2") /\ jobs["j2"].status = "failed" /\ jobs["j2"].progress = 15
    /\ PollAnswered /\ req.job_id = "j2" /\ req.status = "failed"

\* C21: a call of send_telemetry returns whether or not its thread has done
\* anything; the thread ends _save_backup, written or failed, before it
\* enters _send_to_webhook, and enters it after either outcome; there it
\* posts the event once when a webhook URL is set and skips the request
\* when none is set; and no step of the thread changes where the caller is,
\* which is never in an exception.
C21_TelemetryBackupThenWebhook ==
    /\ \A e \in EventIds :
          (telemetry[e].caller = "in_call") ~> (telemetry[e].caller = "returned")
    /\ [](\A e \in EventIds :
            /\ telemetry[e].caller \in {"none", "in_call", "returned"}
            /\ (\/ telemetry[e].at \in {"webhook", "post", "done"}
                \/ telemetry[e].webhook # "none"
                \/ telemetry[e].posts > 0) => telemetry[e].backup \in {"ok", "failed"}
            /\ telemetry[e].posts <= 1
            /\ telemetry[e].at = "done" =>
                  /\ telemetry[e].webhook # "none"
                  /\ telemetry[e].posts = IF TELEMETRY_WEBHOOK_URL = "" THEN 0 ELSE 1)
    /\ [][\A e \in EventIds :
            /\ (telemetry[e].at = "backup" /\ telemetry'[e].at # "backup") =>
                  /\ telemetry'[e].at = "webhook"
                  /\ telemetry'[e].backup \in {"ok", "failed"}
            /\ (telemetry[e].at # "none" /\ telemetry'[e].at # telemetry[e].at) =>
                  telemetry'[e].caller = telemetry[e].caller]_vars

C21_Witness ==
    /\ telemetry["e1"].caller = "returned"
    /\ telemetry["e1"].backup = "failed"
    /\ telemetry["e1"].webhook = "sent"
    /\ telemetry["e2"].caller = "returned"
    /\ telemetry["e2"].at = "backup"

\* The step begins or answers a poll of job_id.
PollOf(job_id) ==
    /\ req' # req
    /\ req'.kind # "idle"
    /\ req'.op = "poll"
    /\ req'.job_id = job_id

\* The step reads the next field of the record the poll in req is of, and
\* keeps what it has read.
ReadsOwnRecord ==
    LET job == jobs[req.job_id]
    IN  /\ req.job_id \in DOMAIN jobs
        /\ req'.job_id = req.job_id
        /\ req'.n = req.n + 1
        /\ req'.status = IF req.n = 0 THEN job.status ELSE req.status
        /\ req'.progress = IF req.n = 1 THEN job.progress ELSE req.progress
        /\ req'.message = IF req.n = 2 THEN job.message ELSE req.message
        /\ req'.transcript =
              IF req.n = 3
              THEN (IF job.transcript \in {None, Some(<< >>)} THEN None ELSE job.transcript)
              ELSE req.transcript
        /\ req'.error = IF req.n = 4 THEN job.error ELSE req.error
        /\ req'.kind = IF req.n = 4 THEN "response" ELSE "polling"

\* C22: no step removes a record from the store; a poll of an id that has a
\* record is never answered not-found, wherever the runner of the job and
\* the other job are; and what it returns is read from the record of that
\* id.
C22_RecordsNeverRemoved ==
    /\ [](\A job_id \in JobIds :
            pc[job_id] \notin {At("free"), At("upload")} => Exists(job_id))
    /\ [][/\ \A job_id \in DOMAIN jobs :
               /\ Exists(job_id)'
               /\ PollOf(job_id) => req'.kind \in {"polling", "response"}
       /\ (req.kind = "polling" /\ req' # req) => ReadsOwnRecord]_vars

C22_Witness ==
    /\ Exists("j1") /\ Done("j1") /\ jobs["j1"].status = "completed" /\ ~FileExists("j1")
    /\ Exists("j2") /\ pc["j2"] = At("queued")
    /\ PollAnswered /\ req.job_id = "j1" /\ req.status = "completed" /\ req.progress = 100

====
